---- MODULE Spec2Model ----
(***************************************************************************)
(* Model of src/main.c: three push-buttons select one of three LED modes.  *)
(*                                                                         *)
(*   main              configures the pins, creates and starts two threads *)
(*   key_thread_entry  polls KEY1..KEY3, debounces falling edges and       *)
(*                     writes g_led_mode                                   *)
(*   led_thread_entry  reads g_led_mode once per iteration and renders it  *)
(*                     on LED1..LED4 (led_mode_flow_step,                  *)
(*                     led_mode_binary_step, leds_all_off)                 *)
(*                                                                         *)
(* A thread step runs from one point where the thread can be observed by   *)
(* the other one to the next: every rt_pin_write of the LED thread is a    *)
(* step of its own, and the key thread runs from one rt_thread_mdelay to   *)
(* the next (it touches the shared g_led_mode at most once in between).    *)
(* rt_pin_read returns a level chosen by the environment.                  *)
(*                                                                         *)
(* Time is in milliseconds.  In a timed run (run.timed) a thread blocked   *)
(* in rt_thread_mdelay(ms) resumes exactly ms later and computing takes no *)
(* time; in an untimed run delays end at any moment, which gives every     *)
(* interleaving of the two threads.                                        *)
(*                                                                         *)
(* A run is bounded in one of two ways.  A counted run counts the steps of *)
(* the two generators since boot and explores run.maxFlow chase steps and  *)
(* run.maxBin binary-count steps.  A free run (run.free) lets the LED      *)
(* thread run for ever and keeps no count; there at most run.maxEvents     *)
(* samples of the buttons differ from the sample before (what a debounce   *)
(* re-read returns stays open).                                            *)
(***************************************************************************)
EXTENDS Integers, Sequences, FiniteSets, TLC

VARIABLES
    run,            \* parameters of the run: [timed, free, maxFlow, maxBin, maxEvents]
    main_pc,        \* position of main: "create_led", "create_key", "return", "done"
    main_ret,       \* what main has returned: << >> until it returns, then <<status>>
    led_tid,        \* result of rt_thread_create("led"): "unset", "null", "tid"
    key_tid,        \* result of rt_thread_create("key"): "unset", "null", "tid"
    led_running,    \* rt_thread_startup(led_tid) was called
    key_running,    \* rt_thread_startup(key_tid) was called
    g_led_mode,     \* the shared mode variable
    leds,           \* level of the four LED pins, led_pins[0..3]
    index,          \* static int index of led_mode_flow_step
    value,          \* static rt_uint8_t value of led_mode_binary_step
    mode,           \* local variable mode of led_thread_entry
    led_pc,         \* position of the LED thread
    led_i,          \* loop variable i of the rendering loop in progress
    led_timer,      \* ms left of the LED thread's rt_thread_mdelay
    key_last,       \* key1_last, key2_last, key3_last
    key_k,          \* k1, k2, k3
    key_pc,         \* 0: at the top of the loop; n: in the debounce delay of key n
    key_reread,     \* level returned by the latest debounce rt_pin_read
    key_timer,      \* ms left of the key thread's rt_thread_mdelay
    events,         \* free runs: number of samples k1, k2, k3 that differed from
                    \* the sample before
    flow_steps,     \* number of led_mode_flow_step calls completed
    bin_steps,      \* number of led_mode_binary_step calls completed
    prop,           \* timed runs: "idle", "written" (mode written, not yet read), "read"
    age             \* timed runs: ms since the latest write of g_led_mode not yet shown

mainVars == <<main_pc, main_ret, led_tid, key_tid, led_running, key_running>>
ledVars  == <<leds, index, value, mode, led_pc, led_i, led_timer, flow_steps, bin_steps>>
keyVars  == <<key_last, key_k, key_pc, key_reread, key_timer, events>>
propVars == <<prop, age>>
vars     == <<run, mainVars, g_led_mode, ledVars, keyVars, propVars>>

----------------------------------------------------------------------------
(* Program constants *)

LED_MODE_NONE   == 0
LED_MODE_FLOW   == 1
LED_MODE_BINARY == 2

PIN_LOW  == 0
PIN_HIGH == 1

RT_EOK == 0

NUM_LEDS == 4

FLOW_DELAY_MS     == 150
BINARY_DELAY_MS   == 200
NONE_DELAY_MS     == 50
DEBOUNCE_DELAY_MS == 20
KEY_POLL_DELAY_MS == 10

UINT8_RANGE == 256

(* Bounds of the model *)

MaxFlowSteps      == 5   \* chase steps explored in an untimed run
MaxBinSteps       == 3   \* binary-count steps explored in an untimed run
LedMaxFlowSteps   == 9   \* chase steps explored in a run of the LED thread alone
LedMaxBinSteps    == 258 \* binary-count steps explored in a run of the LED thread alone
TimedMaxFlowSteps == 1   \* chase steps explored in a timed run
TimedMaxBinSteps  == 1   \* binary-count steps explored in a timed run
MaxInputEvents    == 1   \* changed samples of the buttons in a free run

Pins  == 0 .. (NUM_LEDS - 1)
Keys  == 1 .. 3
Level == {PIN_LOW, PIN_HIGH}

\* Time advances in steps of the shortest delay; every delay is a multiple of it.
TickMs == KEY_POLL_DELAY_MS
AgeCap == BINARY_DELAY_MS + TickMs

----------------------------------------------------------------------------
(* Pure helpers *)

\* value & (1 << i), as 0 or 1
Bit(v, i) == (v \div (2 ^ i)) % 2

\* NextIndex wrapping one pin early
NextIndexShort(ix) == (ix + 1) % (NUM_LEDS - 1)

\* index = (index + 1) % 4
NextIndex(ix) == (ix + 1) % NUM_LEDS

\* value++ on a counter wider than 8 bits
NextValueWide(v) == v + 1

\* value++ on an rt_uint8_t
NextValue(v) == (v + 1) % UINT8_RANGE

\* BinaryLevel testing value & (1 << (i + 1))
BinaryLevelShifted(v, i) == IF Bit(v, i + 1) # 0 THEN PIN_HIGH ELSE PIN_LOW

\* level written to led_pins[i] by the loop of led_mode_binary_step
BinaryLevel(v, i) == IF Bit(v, i) # 0 THEN PIN_HIGH ELSE PIN_LOW

\* leds_all_off writing PIN_HIGH
OffLevelHigh(i) == PIN_HIGH

\* level written to led_pins[i] by leds_all_off
OffLevel(i) == PIN_LOW

\* the pin led_mode_flow_step would light if it advanced index before the write
LitPinAdvanced(ix) == (ix + 1) % NUM_LEDS

\* the pin led_mode_flow_step sets high: led_pins[index]
LitPin(ix) == ix

\* KeyMode with the modes of KEY1 and KEY2 exchanged
KeyModeSwapped(n) ==
    CASE n = 1 -> LED_MODE_BINARY
      [] n = 2 -> LED_MODE_FLOW
      [] n = 3 -> LED_MODE_NONE

\* the mode assigned on a confirmed press of key n
KeyMode(n) ==
    CASE n = 1 -> LED_MODE_FLOW
      [] n = 2 -> LED_MODE_BINARY
      [] n = 3 -> LED_MODE_NONE

\* FallingEdge looking at the level only
FallingEdgeLevel(lastv, kv, n) == kv[n] = 0

\* key n shows high -> low between the previous sample and this one
FallingEdge(lastv, kv, n) == lastv[n] = 1 /\ kv[n] = 0

\* NextEdge for an else-if chain: only the first falling edge is looked at
NextEdgeElseIf(lastv, kv, n) ==
    IF n = 0 /\ \E j \in Keys : FallingEdge(lastv, kv, j)
    THEN CHOOSE j \in Keys :
            /\ FallingEdge(lastv, kv, j)
            /\ \A h \in Keys : FallingEdge(lastv, kv, h) => j <= h
    ELSE 0

\* the next key after n whose if-statement enters the debounce delay, 0 if none
NextEdge(lastv, kv, n) ==
    IF \E j \in Keys : j > n /\ FallingEdge(lastv, kv, j)
    THEN CHOOSE j \in Keys :
            /\ j > n
            /\ FallingEdge(lastv, kv, j)
            /\ \A h \in Keys : (h > n /\ FallingEdge(lastv, kv, h)) => j <= h
    ELSE 0

\* Delay waiting twice as long
DelayDoubled(ms) == IF run.timed THEN 2 * ms ELSE 0

\* rt_thread_mdelay(ms): the time to wait in a timed run
Delay(ms) == IF run.timed THEN ms ELSE 0

\* the step count after one more step; a free run keeps no count
StepCounted(c) == IF run.free THEN c ELSE c + 1

\* a free run admits a changed sample only while it has input events left
InputAllowed(changed) == (run.free /\ changed) => events < run.maxEvents
EventsAfter(changed) == IF run.free /\ changed THEN events + 1 ELSE events

AllLow == \A p \in Pins : leds[p] = PIN_LOW
OneHot(ix) == [p \in Pins |-> IF p = ix THEN PIN_HIGH ELSE PIN_LOW]
Bits(v) == [p \in Pins |-> Bit(v, p)]
\* the pins read as an unsigned number, pin p as bit p
Shown == leds[0] + 2 * leds[1] + 4 * leds[2] + 8 * leds[3]
NumHigh == Cardinality({p \in Pins : leds[p] = PIN_HIGH})

----------------------------------------------------------------------------
(* Initial state: main has configured the pins and called leds_all_off *)

InitWith(r) ==
    /\ run = r
    /\ main_pc = "create_led"
    /\ main_ret = << >>
    /\ led_tid = "unset"
    /\ key_tid = "unset"
    /\ led_running = FALSE
    /\ key_running = FALSE
    /\ g_led_mode = LED_MODE_NONE
    /\ leds = [p \in Pins |-> PIN_LOW]
    /\ index = 0
    /\ value = 0
    /\ mode = LED_MODE_NONE
    /\ led_pc = "read"
    /\ led_i = 0
    /\ led_timer = 0
    /\ key_last = <<1, 1, 1>>
    /\ key_k = <<1, 1, 1>>
    /\ key_pc = 0
    /\ key_reread = 1
    /\ key_timer = 0
    /\ events = 0
    /\ flow_steps = 0
    /\ bin_steps = 0
    /\ prop = "idle"
    /\ age = 0

\* a run that counts the generator steps and stops after mf and mb of them
Counted(t, mf, mb) ==
    [timed |-> t, free |-> FALSE, maxFlow |-> mf, maxBin |-> mb, maxEvents |-> 0]

\* a timed run that lets the LED thread run for ever, with me input events
Free(me) ==
    [timed |-> TRUE, free |-> TRUE, maxFlow |-> 1, maxBin |-> 1, maxEvents |-> me]

Init == InitWith(Counted(FALSE, MaxFlowSteps, MaxBinSteps))

----------------------------------------------------------------------------
(* main *)

\* rt_thread_startup called without the test of tid
StartupUnguarded(tid) == TRUE

\* if (tid != RT_NULL) rt_thread_startup(tid);
StartupCalled(tid) == tid # "null"

\* rt_thread_create("led", ...) and the guarded rt_thread_startup
MainCreateLed ==
    /\ main_pc = "create_led"
    /\ \E tid \in {"tid", "null"} :
          /\ led_tid' = tid
          /\ led_running' = StartupCalled(tid)
    /\ main_pc' = "create_key"
    /\ UNCHANGED <<run, main_ret, key_tid, key_running, g_led_mode, ledVars, keyVars, propVars>>

\* rt_thread_create("key", ...) and the guarded rt_thread_startup
MainCreateKey ==
    /\ main_pc = "create_key"
    /\ \E tid \in {"tid", "null"} :
          /\ key_tid' = tid
          /\ key_running' = StartupCalled(tid)
    /\ main_pc' = "return"
    /\ UNCHANGED <<run, main_ret, led_tid, led_running, g_led_mode, ledVars, keyVars, propVars>>

\* MainReturn reporting a failed creation: RT_EOK only if both threads exist
MainReturnChecked ==
    /\ main_pc = "return"
    /\ main_ret' = IF led_tid = "tid" /\ key_tid = "tid" THEN <<RT_EOK>> ELSE <<-1>>
    /\ main_pc' = "done"
    /\ UNCHANGED <<run, led_tid, key_tid, led_running, key_running, g_led_mode, ledVars,
                   keyVars, propVars>>

\* return RT_EOK
MainReturn ==
    /\ main_pc = "return"
    /\ main_ret' = <<RT_EOK>>
    /\ main_pc' = "done"
    /\ UNCHANGED <<run, led_tid, key_tid, led_running, key_running, g_led_mode, ledVars,
                   keyVars, propVars>>

----------------------------------------------------------------------------
(* Propagation bookkeeping of a timed run: the latest write of g_led_mode  *)
(* is "written" until the LED thread reads g_led_mode, "read" until that   *)
(* iteration has written its pins, and "idle" once it is on the pins.      *)

PropWritten(p) == IF run.timed /\ ~ run.free THEN "written" ELSE p
PropRead(p)    == IF p = "written" THEN "read" ELSE p
PropShown(p)   == IF p = "read" THEN "idle" ELSE p
AgeShown(p, a) == IF p = "read" THEN 0 ELSE a

----------------------------------------------------------------------------
(* led_thread_entry *)

LedReady == led_running /\ led_timer = 0

\* Dispatch with the two case labels exchanged
DispatchSwapped(m) ==
    CASE m = LED_MODE_FLOW   -> "bin_write"
      [] m = LED_MODE_BINARY -> "flow_off"
      [] OTHER               -> "off_write"

\* Dispatch without the default label: any other mode runs the chase
DispatchNoDefault(m) ==
    CASE m = LED_MODE_BINARY -> "bin_write"
      [] OTHER               -> "flow_off"

\* the branch of the switch taken for mode m
Dispatch(m) ==
    CASE m = LED_MODE_FLOW   -> "flow_off"
      [] m = LED_MODE_BINARY -> "bin_write"
      [] OTHER               -> "off_write"

\* LedRead taking the mode as a command: it clears g_led_mode once read
LedReadConsuming ==
    /\ LedReady
    /\ led_pc = "read"
    /\ g_led_mode = LED_MODE_FLOW => flow_steps < run.maxFlow
    /\ g_led_mode = LED_MODE_BINARY => bin_steps < run.maxBin
    /\ mode' = g_led_mode
    /\ led_pc' = Dispatch(g_led_mode)
    /\ led_i' = 0
    /\ prop' = PropRead(prop)
    /\ g_led_mode' = LED_MODE_NONE
    /\ UNCHANGED <<run, mainVars, leds, index, value, led_timer, flow_steps,
                   bin_steps, keyVars, age>>

\* rt_uint8_t mode = g_led_mode; switch (mode)
LedRead ==
    /\ LedReady
    /\ led_pc = "read"
    /\ g_led_mode = LED_MODE_FLOW => flow_steps < run.maxFlow
    /\ g_led_mode = LED_MODE_BINARY => bin_steps < run.maxBin
    /\ mode' = g_led_mode
    /\ led_pc' = Dispatch(g_led_mode)
    /\ led_i' = 0
    /\ prop' = PropRead(prop)
    /\ UNCHANGED <<run, mainVars, g_led_mode, leds, index, value, led_timer, flow_steps,
                   bin_steps, keyVars, age>>

\* led_mode_flow_step: one iteration of the loop of leds_all_off
FlowAllOff ==
    /\ LedReady
    /\ led_pc = "flow_off"
    /\ leds' = [leds EXCEPT ![led_i] = OffLevel(led_i)]
    /\ IF led_i + 1 < NUM_LEDS
       THEN led_i' = led_i + 1 /\ led_pc' = led_pc
       ELSE led_i' = 0 /\ led_pc' = "flow_on"
    /\ UNCHANGED <<run, mainVars, g_led_mode, index, value, mode, led_timer, flow_steps,
                   bin_steps, keyVars, propVars>>

\* FlowOn reading g_led_mode again: it lights the pin only if the mode is
\* still LED_MODE_FLOW
FlowOnRereading ==
    /\ LedReady
    /\ led_pc = "flow_on"
    /\ leds' = IF g_led_mode = LED_MODE_FLOW
                THEN [leds EXCEPT ![LitPin(index)] = PIN_HIGH]
                ELSE leds
    /\ led_pc' = "flow_delay"
    /\ led_timer' = Delay(FLOW_DELAY_MS)
    /\ prop' = PropShown(prop)
    /\ age' = AgeShown(prop, age)
    /\ UNCHANGED <<run, mainVars, g_led_mode, index, value, mode, led_i, flow_steps,
                   bin_steps, keyVars>>

\* led_mode_flow_step: rt_pin_write(led_pins[index], PIN_HIGH); rt_thread_mdelay(150)
FlowOn ==
    /\ LedReady
    /\ led_pc = "flow_on"
    /\ leds' = [leds EXCEPT ![LitPin(index)] = PIN_HIGH]
    /\ led_pc' = "flow_delay"
    /\ led_timer' = Delay(FLOW_DELAY_MS)
    /\ prop' = PropShown(prop)
    /\ age' = AgeShown(prop, age)
    /\ UNCHANGED <<run, mainVars, g_led_mode, index, value, mode, led_i, flow_steps,
                   bin_steps, keyVars>>

\* led_mode_flow_step: index = (index + 1) % 4, and the return to the loop
FlowDelayDone ==
    /\ LedReady
    /\ led_pc = "flow_delay"
    /\ index' = NextIndex(index)
    /\ flow_steps' = StepCounted(flow_steps)
    /\ led_pc' = "read"
    /\ UNCHANGED <<run, mainVars, g_led_mode, leds, value, mode, led_i, led_timer,
                   bin_steps, keyVars, propVars>>

\* led_mode_binary_step: one iteration of the loop; after the last one value++
\* and rt_thread_mdelay(200)
BinaryWrite ==
    /\ LedReady
    /\ led_pc = "bin_write"
    /\ leds' = [leds EXCEPT ![led_i] = BinaryLevel(value, led_i)]
    /\ IF led_i + 1 < NUM_LEDS
       THEN /\ led_i' = led_i + 1
            /\ UNCHANGED <<value, led_pc, led_timer, propVars>>
       ELSE /\ led_i' = 0
            /\ value' = NextValue(value)
            /\ led_pc' = "bin_delay"
            /\ led_timer' = Delay(BINARY_DELAY_MS)
            /\ prop' = PropShown(prop)
            /\ age' = AgeShown(prop, age)
    /\ UNCHANGED <<run, mainVars, g_led_mode, index, mode, flow_steps, bin_steps, keyVars>>

\* led_mode_binary_step returns to the loop
BinaryDelayDone ==
    /\ LedReady
    /\ led_pc = "bin_delay"
    /\ bin_steps' = StepCounted(bin_steps)
    /\ led_pc' = "read"
    /\ UNCHANGED <<run, mainVars, g_led_mode, leds, index, value, mode, led_i, led_timer,
                   flow_steps, keyVars, propVars>>

\* default branch: one iteration of the loop of leds_all_off; after the last
\* one rt_thread_mdelay(50)
OffAllOff ==
    /\ LedReady
    /\ led_pc = "off_write"
    /\ leds' = [leds EXCEPT ![led_i] = OffLevel(led_i)]
    /\ IF led_i + 1 < NUM_LEDS
       THEN /\ led_i' = led_i + 1
            /\ UNCHANGED <<led_pc, led_timer, propVars>>
       ELSE /\ led_i' = 0
            /\ led_pc' = "off_delay"
            /\ led_timer' = Delay(NONE_DELAY_MS)
            /\ prop' = PropShown(prop)
            /\ age' = AgeShown(prop, age)
    /\ UNCHANGED <<run, mainVars, g_led_mode, index, value, mode, flow_steps, bin_steps,
                   keyVars>>

\* OffDelayDone restarting the chase at pin 0 whenever Off has been rendered
OffDelayDoneResetting ==
    /\ LedReady
    /\ led_pc = "off_delay"
    /\ led_pc' = "read"
    /\ index' = 0
    /\ UNCHANGED <<run, mainVars, g_led_mode, leds, value, mode, led_i, led_timer,
                   flow_steps, bin_steps, keyVars, propVars>>

\* default branch: break, back to the top of the loop
OffDelayDone ==
    /\ LedReady
    /\ led_pc = "off_delay"
    /\ led_pc' = "read"
    /\ UNCHANGED <<run, mainVars, g_led_mode, leds, index, value, mode, led_i, led_timer,
                   flow_steps, bin_steps, keyVars, propVars>>

LedThread ==
    \/ LedRead
    \/ FlowAllOff
    \/ FlowOn
    \/ FlowDelayDone
    \/ BinaryWrite
    \/ BinaryDelayDone
    \/ OffAllOff
    \/ OffDelayDone

----------------------------------------------------------------------------
(* key_thread_entry *)

KeyReady == key_running /\ key_timer = 0

\* Confirmed without looking at the second sample
ConfirmedUnchecked(lvl) == TRUE

\* if (rt_pin_read(KEYn_PIN) == 0)
Confirmed(lvl) == lvl = PIN_LOW

\* KeyContinue without the rt_thread_mdelay(10) at the bottom of the loop
KeyContinueBusy(n, kv) ==
    LET j == NextEdge(key_last, kv, n) IN
    /\ key_k' = kv
    /\ key_pc' = j
    /\ IF j # 0
       THEN key_last' = key_last /\ key_timer' = Delay(DEBOUNCE_DELAY_MS)
       ELSE key_last' = kv /\ key_timer' = 0

\* Continue after the if-statement of key n (n = 0: after the three samples)
\* with samples kv: enter the debounce delay of the next key showing a falling
\* edge, or store the samples in keyN_last and rt_thread_mdelay(10).
KeyContinue(n, kv) ==
    LET j == NextEdge(key_last, kv, n) IN
    /\ key_k' = kv
    /\ key_pc' = j
    /\ IF j # 0
       THEN key_last' = key_last /\ key_timer' = Delay(DEBOUNCE_DELAY_MS)
       ELSE key_last' = kv /\ key_timer' = Delay(KEY_POLL_DELAY_MS)

\* k1, k2, k3 = rt_pin_read(...), up to the next rt_thread_mdelay
KeySample ==
    /\ KeyReady
    /\ key_pc = 0
    /\ \E a, b, c \in Level :
          /\ InputAllowed(<<a, b, c>> # key_k)
          /\ events' = EventsAfter(<<a, b, c>> # key_k)
          /\ KeyContinue(0, <<a, b, c>>)
    /\ UNCHANGED <<run, mainVars, g_led_mode, ledVars, key_reread, propVars>>

\* after rt_thread_mdelay(20): the second rt_pin_read of key key_pc, the
\* assignment of g_led_mode, up to the next rt_thread_mdelay
KeyConfirm ==
    /\ KeyReady
    /\ key_pc \in Keys
    /\ \E lvl \in Level :
          /\ key_reread' = lvl
          /\ IF Confirmed(lvl)
             THEN /\ g_led_mode' = KeyMode(key_pc)
                  /\ prop' = PropWritten(prop)
                  /\ age' = 0
             ELSE UNCHANGED <<g_led_mode, propVars>>
    /\ KeyContinue(key_pc, key_k)
    /\ UNCHANGED <<run, mainVars, ledVars, events>>

KeyThread == KeySample \/ KeyConfirm

Main == MainCreateLed \/ MainCreateKey \/ MainReturn

----------------------------------------------------------------------------
(* Time, in timed runs: it passes only while every running thread is       *)
(* blocked in rt_thread_mdelay and main has returned.                      *)

Min(a, b) == IF a < b THEN a ELSE b
Max(a, b) == IF a > b THEN a ELSE b

Tick ==
    /\ run.timed
    /\ main_pc = "done"
    /\ led_running \/ key_running
    /\ led_running => led_timer > 0
    /\ key_running => key_timer > 0
    /\ led_timer' = Max(led_timer - TickMs, 0)
    /\ key_timer' = Max(key_timer - TickMs, 0)
    /\ age' = IF prop # "idle" THEN Min(age + TickMs, AgeCap) ELSE age
    /\ UNCHANGED <<run, mainVars, g_led_mode, leds, index, value, mode, led_pc, led_i,
                   flow_steps, bin_steps, key_last, key_k, key_pc, key_reread, events,
                   prop>>

----------------------------------------------------------------------------
(* Specifications *)

Next == Main \/ LedThread \/ KeyThread

\* Every interleaving of main and the two threads.
Spec == Init /\ [][Next]_vars

InitTimed ==
    InitWith(Counted(TRUE, TimedMaxFlowSteps, TimedMaxBinSteps))

NextTimed == Main \/ LedThread \/ KeyThread \/ Tick

\* The same program with the delays taking their time.
SpecTimed == InitTimed /\ [][NextTimed]_vars

\* The LED thread alone, from the states in which key n has just been
\* confirmed and the LED thread has not rendered anything yet; the buttons
\* are then left as they are, so the key thread changes nothing any more.
InitLed ==
    /\ run = Counted(FALSE, LedMaxFlowSteps, LedMaxBinSteps)
    /\ main_pc = "done"
    /\ main_ret = <<RT_EOK>>
    /\ led_tid = "tid"
    /\ key_tid = "tid"
    /\ led_running = TRUE
    /\ key_running = TRUE
    /\ \E n \in Keys :
          /\ g_led_mode = KeyMode(n)
          /\ key_last = [j \in Keys |-> IF j = n THEN 0 ELSE 1]
          /\ key_k = [j \in Keys |-> IF j = n THEN 0 ELSE 1]
    /\ key_pc = 0
    /\ key_reread = 0
    /\ key_timer = 0
    /\ events = 0
    /\ leds = [p \in Pins |-> PIN_LOW]
    /\ index = 0
    /\ value = 0
    /\ mode = LED_MODE_NONE
    /\ led_pc = "read"
    /\ led_i = 0
    /\ led_timer = 0
    /\ flow_steps = 0
    /\ bin_steps = 0
    /\ prop = "idle"
    /\ age = 0

NextLed == LedThread

SpecLed == InitLed /\ [][NextLed]_vars

InitFree == InitWith(Free(MaxInputEvents))

NextFree == Main \/ LedThread \/ KeyThread \/ Tick

\* The scheduler runs a thread that is ready, main runs to its return, and
\* time passes while every thread is blocked.
Fairness ==
    /\ WF_vars(Main)
    /\ WF_vars(LedThread)
    /\ WF_vars(KeyThread)
    /\ WF_vars(Tick)

\* The timed program running for ever under a fair scheduler, with a
\* bounded number of changed samples of the buttons.
SpecFree == InitFree /\ [][NextFree]_vars /\ Fairness

----------------------------------------------------------------------------
(* Steps of the key thread, as seen in a transition *)

\* the key thread leaves the debounce delay of key n
ConfirmStep(n) == key_pc = n /\ key_pc' # n

\* ... having read the key low again: a confirmed edge of key n
ConfirmedEdge(n) == ConfirmStep(n) /\ key_reread' = PIN_LOW

\* ... having read the key high again: the transition was a glitch
RejectedEdge(n) == ConfirmStep(n) /\ key_reread' = PIN_HIGH

\* the mode each key stands for: key 1 Chase, key 2 BinaryCount, key 3 Off
ModeOfKey == <<LED_MODE_FLOW, LED_MODE_BINARY, LED_MODE_NONE>>

----------------------------------------------------------------------------
\* C1: every confirmed edge of key n leaves g_led_mode at the mode of key n,
\* and no other step changes g_led_mode; so after any sequence of confirmed
\* edges the mode is that of the last one.
C1_ModeOfLastConfirmedEdge ==
    [][ /\ \A n \in Keys : ConfirmedEdge(n) => g_led_mode' = ModeOfKey[n]
        /\ (~ \E n \in Keys : ConfirmedEdge(n)) => g_led_mode' = g_led_mode ]_vars

\* Chase and BinaryCount have both been rendered, and a confirmed edge of key 3
\* came last: the mode is Off again.
C1_Witness ==
    /\ flow_steps > 0
    /\ bin_steps > 0
    /\ key_reread = PIN_LOW
    /\ key_last[3] = 0
    /\ g_led_mode = LED_MODE_NONE

\* C2: a falling edge whose second sample, after the 20 ms delay, reads high
\* again (a glitch) does not change g_led_mode.
C2_GlitchKeepsMode ==
    [][ \A n \in Keys : RejectedEdge(n) => g_led_mode' = g_led_mode ]_vars

\* Key 1 and key 2 fell in the same sample, key 1 has just been re-read high,
\* and the mode is not Chase.
C2_Witness ==
    /\ key_pc = 2
    /\ FallingEdge(key_last, key_k, 1)
    /\ key_reread = PIN_HIGH
    /\ g_led_mode # LED_MODE_FLOW

----------------------------------------------------------------------------
\* the Off render in progress or just done, with Off selected and every pin low
OffSettled ==
    /\ g_led_mode = LED_MODE_NONE
    /\ led_pc \in {"read", "off_write", "off_delay"}
    /\ AllLow

\* C3 as stated: from the write of Off on, while Off is selected, the four
\* outputs are low.
C3_OffImmediately == g_led_mode = LED_MODE_NONE => AllLow

\* C3, amended: the four outputs are low once the LED thread has completed
\* an Off render, and from then on they stay low for as long as Off stays
\* selected.
C3_OffAfterRender ==
    /\ [](led_pc = "off_delay" => AllLow)
    /\ [][(OffSettled /\ g_led_mode' = LED_MODE_NONE) => OffSettled']_vars

\* Chase and BinaryCount have both been rendered, Off is selected and the LED
\* thread has completed an Off render.
C3_Witness ==
    /\ flow_steps > 0
    /\ bin_steps > 0
    /\ g_led_mode = LED_MODE_NONE
    /\ led_pc = "off_delay"
    /\ AllLow

----------------------------------------------------------------------------
\* C4: after the N-th chase step exactly one output is high, output
\* (N - 1) mod 4: the lit output advances by one modulo 4 per step and comes
\* back after exactly 4 steps.
C4_ChasePattern ==
    /\ led_pc = "flow_delay" =>
          (NumHigh = 1 /\ leds[flow_steps % NUM_LEDS] = PIN_HIGH)
    /\ (led_pc = "read" /\ mode = LED_MODE_FLOW) =>
          /\ flow_steps >= 1
          /\ NumHigh = 1
          /\ leds[(flow_steps - 1) % NUM_LEDS] = PIN_HIGH

\* Six consecutive chase steps are done; the second round lights output 1.
C4_Witness ==
    /\ led_pc = "read"
    /\ mode = LED_MODE_FLOW
    /\ flow_steps = 6
    /\ leds = OneHot(1)

----------------------------------------------------------------------------
\* C5 as stated: after K binary-count steps from counter value 0 the outputs
\* show K mod 16.
C5_ShowsK ==
    (led_pc = "read" /\ mode = LED_MODE_BINARY) => Shown = bin_steps % 16

\* C5, amended: after K >= 1 binary-count steps from counter value 0 the
\* outputs show (K - 1) mod 16, the value the counter had when the K-th step
\* began; the counter itself is K mod 256.
C5_ShowsKMinusOne ==
    (led_pc = "read" /\ mode = LED_MODE_BINARY) =>
        /\ bin_steps >= 1
        /\ Shown = (bin_steps - 1) % 16
        /\ value = bin_steps % UINT8_RANGE

\* Eighteen steps are done: the outputs have wrapped and show 1.
C5_Witness ==
    /\ led_pc = "read"
    /\ mode = LED_MODE_BINARY
    /\ bin_steps = 18
    /\ Shown = 1

----------------------------------------------------------------------------
\* the outputs lit by the first chase renders after startup
ChaseSequence == <<0, 1, 2, 3, 0>>

\* the LED thread reads g_led_mode and takes a branch of the switch
ReadStep == led_pc = "read" /\ led_pc' # "read"

\* C6: from the initial state a confirmed edge of key 1 sets the mode to
\* Chase, an iteration of the LED thread that reads Chase runs a chase step,
\* and the chase renders light exactly output 0, 1, 2, 3 and then 0 again.
C6_EndToEnd ==
    /\ [][ConfirmedEdge(1) => g_led_mode' = LED_MODE_FLOW]_vars
    /\ [][(ReadStep /\ g_led_mode = LED_MODE_FLOW) => led_pc' = "flow_off"]_vars
    /\ [](\A n \in 1 .. Len(ChaseSequence) :
            (led_pc = "flow_delay" /\ flow_steps = n - 1) => leds = OneHot(ChaseSequence[n]))

\* Only key 1 was pressed: the fifth chase render is on the pins and lights
\* output 0 again.
C6_Witness ==
    /\ g_led_mode = LED_MODE_FLOW
    /\ key_last = <<0, 1, 1>>
    /\ bin_steps = 0
    /\ led_pc = "flow_delay"
    /\ flow_steps = 4
    /\ leds = OneHot(0)

----------------------------------------------------------------------------
\* the pattern of mode m for chase position ix and counter value v
Pattern(m, ix, v) ==
    CASE m = LED_MODE_FLOW   -> OneHot(ix)
      [] m = LED_MODE_BINARY -> Bits(v)
      [] OTHER               -> [p \in Pins |-> PIN_LOW]

\* the counter value before the latest value++
PrevValue == (value + UINT8_RANGE - 1) % UINT8_RANGE

\* the LED thread has written every pin of this iteration
RenderDone == led_pc \in {"flow_delay", "bin_delay", "off_delay"}

\* C7: whatever the interleaving, the pattern a completed render leaves on
\* the pins is the pattern of the one mode value the LED thread read at the
\* start of that iteration, applied to the generator's state.
C7_NoMixedRender ==
    RenderDone => leds = Pattern(mode, index, PrevValue)

\* A chase render is complete and shows its one output although BinaryCount
\* was written to g_led_mode after the LED thread had read Chase.
C7_Witness ==
    /\ led_pc = "flow_delay"
    /\ mode = LED_MODE_FLOW
    /\ g_led_mode = LED_MODE_BINARY
    /\ bin_steps > 0
    /\ leds = OneHot(index)

----------------------------------------------------------------------------
\* C8 as stated: with the LED thread running, the latest mode written is on
\* the outputs at most 30 ms after the write.
C8_Within30ms == (led_running /\ prop # "idle") => age <= 30

\* C8, amended: with the LED thread running, the latest mode written is on
\* the outputs at most 200 ms after the write (the longest delay of a render).
C8_Within200ms == (led_running /\ prop # "idle") => age <= 200

\* The LED thread reads the new mode 200 ms after it was written.
C8_Witness ==
    /\ led_running
    /\ prop = "read"
    /\ age = 200

----------------------------------------------------------------------------
\* C9: if rt_thread_create("led") fails the LED thread is never started and
\* never runs, and the four outputs stay low.
C9_NoLedThread ==
    led_tid = "null" =>
        /\ ~ led_running
        /\ led_pc = "read"
        /\ flow_steps = 0
        /\ bin_steps = 0
        /\ AllLow

\* The LED thread could not be created, the key thread runs and a press of
\* key 1 has been confirmed.
C9_Witness ==
    /\ led_tid = "null"
    /\ main_pc = "done"
    /\ key_reread = PIN_LOW
    /\ g_led_mode = LED_MODE_FLOW
    /\ AllLow

----------------------------------------------------------------------------
\* a step that changes a local variable of the key thread
KeyStep ==
    \/ key_pc' # key_pc
    \/ key_k' # key_k
    \/ key_last' # key_last
    \/ key_reread' # key_reread

\* a step that changes a variable of the LED thread
LedStep == ledVars' # ledVars

\* C10: g_led_mode is changed only by steps of the key thread; steps of the
\* LED thread leave it unchanged, and steps of the key thread leave the four
\* outputs, the chase position and the binary counter unchanged.
C10_SingleWriter ==
    [][ /\ g_led_mode' # g_led_mode => (KeyStep /\ ~ LedStep)
        /\ LedStep => g_led_mode' = g_led_mode
        /\ KeyStep => UNCHANGED <<leds, index, value>> ]_vars

\* The LED thread has read Off and is turning the outputs off, one is still
\* high from the render before, and the key thread has since written Chase.
C10_Witness ==
    /\ led_pc = "off_write"
    /\ led_i = 1
    /\ NumHigh >= 1
    /\ g_led_mode = LED_MODE_FLOW
    /\ index > 0
    /\ value > 0

----------------------------------------------------------------------------
\* the step of led_mode_flow_step that advances index
ChaseAdvance == led_pc = "flow_delay" /\ led_pc' = "read"

\* the step of led_mode_binary_step that increments value
BinaryAdvance == led_pc = "bin_write" /\ led_pc' = "bin_delay"

\* C11: index is changed only by a chase step (by one modulo 4) and value
\* only by a binary-count step (by one modulo 256); Off renders, renders of
\* the other pattern and writes of g_led_mode leave both unchanged, so a
\* generator resumes where it was when its mode was left.
C11_GeneratorStateRetained ==
    [][ /\ index' # index => (ChaseAdvance /\ index' = (index + 1) % 4)
        /\ value' # value => (BinaryAdvance /\ value' = (value + 1) % 256)
        /\ ChaseAdvance => value' = value
        /\ BinaryAdvance => index' = index
        /\ (~ ChaseAdvance /\ ~ BinaryAdvance) => UNCHANGED <<index, value>> ]_vars

\* Three chase steps were done (the last lit output 2), then binary-count
\* renders left output 1 lit; the LED thread has read Chase again and is about
\* to render it with index still at 3 and value at 3.
C11_Witness ==
    /\ flow_steps = 3
    /\ bin_steps = 3
    /\ led_pc = "flow_off"
    /\ led_i = 0
    /\ mode = LED_MODE_FLOW
    /\ leds = OneHot(1)
    /\ index = 3
    /\ value = 3

----------------------------------------------------------------------------
\* key n was high at the previous sample and is low at the current one
Fell(n) == key_last[n] = PIN_HIGH /\ key_k[n] = PIN_LOW

\* the keys above n that fell in the current sample
FellAbove(n) == {j \in Keys : j > n /\ Fell(j)}

\* the lowest of them, 0 if there is none
NextFell(n) ==
    IF FellAbove(n) = {} THEN 0
    ELSE CHOOSE j \in FellAbove(n) : \A h \in FellAbove(n) : j <= h

\* C12: the keys that fell in one sample are re-checked one after the other
\* in the order key 1, key 2, key 3 within that iteration, every confirmed one
\* writes its mode, and so the mode at the end of the iteration is that of the
\* last confirmed key in this order.
C12_SequentialConfirms ==
    /\ [](\A n \in Keys : key_pc = n => Fell(n))
    /\ [][(key_pc = 0 /\ key_pc' # 0) => key_pc' = (NextFell(0))']_vars
    /\ [][\A n \in Keys : ConfirmStep(n) =>
            /\ key_k' = key_k
            /\ key_pc' = NextFell(n)
            /\ g_led_mode' = IF key_reread' = PIN_LOW THEN ModeOfKey[n] ELSE g_led_mode]_vars

\* The three keys fell in the same sample; after the re-check of key 1, key 2
\* has been confirmed and its mode stands, and the re-check of key 3 is pending.
C12_Witness ==
    /\ key_pc = 3
    /\ Fell(1)
    /\ Fell(2)
    /\ Fell(3)
    /\ key_reread = PIN_LOW
    /\ g_led_mode = LED_MODE_BINARY

----------------------------------------------------------------------------
\* the key thread ends an iteration: it stores the samples and sleeps 10 ms
IterationEnd == KeyStep /\ key_pc' = 0

\* C13: the key thread re-checks key n, and writes its mode, only in an
\* iteration whose previous sample of key n was high and whose current sample
\* is low; the previous samples are overwritten with the current ones at the
\* end of every iteration and nowhere else, so a key sampled low before is
\* not re-checked while it stays low and cannot override a later press.
C13_EdgeTriggered ==
    /\ [](\A n \in Keys : key_pc = n => (key_last[n] = PIN_HIGH /\ key_k[n] = PIN_LOW))
    /\ [][ /\ g_led_mode' # g_led_mode =>
                \E n \in Keys : ConfirmStep(n) /\ Fell(n) /\ g_led_mode' = ModeOfKey[n]
           /\ IterationEnd => key_last' = key_k'
           /\ key_pc' # 0 => key_last' = key_last
           /\ \A n \in Keys : (key_pc = 0 /\ key_last[n] = PIN_LOW) => key_pc' # n ]_vars

\* Key 1 was low at the previous sample and is still low (held; Chase has
\* been rendered), keys 2 and 3 fell in the current sample, key 2 has been
\* confirmed and BinaryCount stands; key 1 was not re-checked.
C13_Witness ==
    /\ key_pc = 3
    /\ key_last[1] = PIN_LOW
    /\ key_k[1] = PIN_LOW
    /\ Fell(2)
    /\ Fell(3)
    /\ key_reread = PIN_LOW
    /\ g_led_mode = LED_MODE_BINARY
    /\ flow_steps > 0

----------------------------------------------------------------------------
\* where the render of mode m begins
RenderOf(m) ==
    IF m = LED_MODE_FLOW THEN "flow_off"
    ELSE IF m = LED_MODE_BINARY THEN "bin_write"
    ELSE "off_write"

\* the positions of the LED thread inside the render of mode m
RenderPcs(m) ==
    IF m = LED_MODE_FLOW THEN {"flow_off", "flow_on", "flow_delay"}
    ELSE IF m = LED_MODE_BINARY THEN {"bin_write", "bin_delay"}
    ELSE {"off_write", "off_delay"}

\* C14: the LED thread takes its snapshot of g_led_mode only at the start of
\* an iteration, renders that snapshot, and comes back for the next snapshot
\* only after the delay that ends the render; so after a write it completes
\* at most the render in progress with the old mode, and every iteration
\* started afterwards reads, and renders, the mode then in g_led_mode.
C14_OneReadPerIteration ==
    /\ [](led_pc # "read" => led_pc \in RenderPcs(mode))
    /\ [][ /\ ReadStep => (mode' = g_led_mode /\ led_pc' = RenderOf(g_led_mode))
           /\ mode' # mode => ReadStep
           /\ (led_pc # "read" /\ led_pc' = "read") => RenderDone ]_vars

\* The chase render that was in progress has been completed; the LED thread
\* has then read BinaryCount and starts to render it over the chase pattern.
C14_Witness ==
    /\ led_pc = "bin_write"
    /\ led_i = 0
    /\ mode = LED_MODE_BINARY
    /\ g_led_mode = LED_MODE_BINARY
    /\ flow_steps = 2
    /\ leds = OneHot(1)
    /\ value = 0

----------------------------------------------------------------------------
\* C15: a key that reads low at every sample from some poll on gets its mode
\* assigned, also when the debounce re-read of the first low sample returned
\* high.  Stated for key 1 and key 2, whose modes differ from the mode at
\* boot: g_led_mode takes the key's mode at some moment.
C15_HeldPressAssigned ==
    \A n \in 1 .. 2 :
        <>[](key_running /\ key_k[n] = PIN_LOW) => <>(g_led_mode = ModeOfKey[n])

----------------------------------------------------------------------------
\* C16: value stays in 0 .. 255 and every binary-count step increments it by
\* one modulo 256; the outputs show its low 4 bits only, so the render of step
\* number K (counted from 0) shows K mod 16, also across the wrap of value
\* from 255 to 0, while value itself repeats every 256 steps.
C16_EightBitCounter ==
    /\ [](value \in 0 .. 255)
    /\ [](led_pc = "bin_delay" =>
            /\ value = (bin_steps + 1) % 256
            /\ Shown = PrevValue % 16
            /\ Shown = bin_steps % 16)
    /\ [][BinaryAdvance => value' = (value + 1) % 256]_vars

\* The 256th step has shown 15 with value at 255 and has wrapped value to 0;
\* the 257th step shows 0 and leaves value at 1.
C16_Witness ==
    /\ led_pc = "bin_delay"
    /\ bin_steps = 256
    /\ Shown = 0
    /\ value = 1

----------------------------------------------------------------------------
\* nothing but Off has been asked for or rendered since boot
Quiet ==
    /\ g_led_mode = LED_MODE_NONE
    /\ mode = LED_MODE_NONE
    /\ AllLow
    /\ led_pc \in {"read", "off_write", "off_delay"}
    /\ index = 0
    /\ value = 0
    /\ flow_steps = 0
    /\ bin_steps = 0

\* C17: as long as no edge has been confirmed, g_led_mode is LED_MODE_NONE
\* and the four pins are low, whatever main, the LED thread and the key thread
\* do in whatever order (glitches included); and while the key thread is not
\* running, so for ever if its creation failed, the pins stay low.
C17_QuietUntilFirstEdge ==
    /\ [](~ key_running => Quiet)
    /\ [](key_tid = "null" => (~ key_running /\ g_led_mode = LED_MODE_NONE /\ AllLow))
    /\ [][(Quiet /\ ~ \E n \in Keys : ConfirmedEdge(n)) => Quiet']_vars

\* The key thread could not be created, main has returned, and the LED thread
\* has rendered Off and sits in its 50 ms delay.
C17_Witness ==
    /\ key_tid = "null"
    /\ main_pc = "done"
    /\ led_running
    /\ led_pc = "off_delay"
    /\ AllLow

----------------------------------------------------------------------------
\* C18: a thread is started if and only if its own rt_thread_create returned
\* a handle; whatever the creation of the LED thread returned, the key thread
\* can still be created and started; and main returns RT_EOK in each of the
\* four combinations of outcomes.
C18_IndependentStartup ==
    /\ [](led_running <=> led_tid = "tid")
    /\ [](key_running <=> key_tid = "tid")
    /\ [](main_pc = "create_key" =>
            /\ led_tid \in {"tid", "null"}
            /\ ENABLED (MainCreateKey /\ key_running'))
    /\ [](main_pc \in {"return", "done"} =>
            /\ led_tid \in {"tid", "null"}
            /\ key_tid \in {"tid", "null"})
    /\ [](main_pc = "done" <=> main_ret = <<RT_EOK>>)

\* The LED thread could not be created; the key thread was created and
\* started all the same, and main has returned RT_EOK.
C18_Witness ==
    /\ main_pc = "done"
    /\ main_ret = <<RT_EOK>>
    /\ led_tid = "null"
    /\ ~ led_running
    /\ key_tid = "tid"
    /\ key_running
    /\ key_pc # 0

----------------------------------------------------------------------------
\* the LED thread comes back to the top of its loop: a render iteration is over
LedIterationDone == led_running /\ led_pc # "read" /\ led_pc' = "read"

\* the 10 ms delay at the bottom of the key thread's loop has elapsed: a poll
\* iteration is over
KeyIterationDone == key_running /\ key_pc = 0 /\ key_timer > 0 /\ key_timer' = 0

\* C19: with a fair scheduler and time passing, a thread that was created
\* completes iterations of its loop again and again, whatever the buttons
\* read and whatever the other thread does: the LED thread render iterations
\* (also while the key thread sits in a debounce delay), the key thread poll
\* iterations.
C19_TasksRunForEver ==
    /\ [](led_tid # "tid") \/ []<><<LedIterationDone>>_vars
    /\ [](key_tid # "tid") \/ []<><<KeyIterationDone>>_vars

\* Key 2 is held down: the binary counter has gone through all its 256 values
\* and wrapped to 0 while the key thread is in its poll delay once more.
C19_Witness ==
    /\ run.free
    /\ events = 1
    /\ key_k[2] = PIN_LOW
    /\ key_pc = 0
    /\ key_timer > 0
    /\ led_pc = "bin_delay"
    /\ Shown = 15
    /\ value = 0

====
